---- MODULE Spec2Model ----
(***************************************************************************)
(* Model of the mail-to-transactions pipeline of iledge-backend:           *)
(*   app/parse_email.py  get_parsed_emails, get_mail_dataframe             *)
(*   app/api.py          process_transactions, /all-transactions,          *)
(*                       /new-transactions                                 *)
(* A message is what the mailbox returns for one mail id; a marker element *)
(* (span.gmailmsg) is the sequence of the chunks that str(span) has        *)
(* between its <br/> separators.  The store is the two tables receivers    *)
(* and transactions plus the identity counter of receivers.                *)
(***************************************************************************)
EXTENDS Integers, Sequences, FiniteSets, TLC

VARIABLES IDS, inbox, receivers, transactions, next_id, run

vars == <<IDS, inbox, receivers, transactions, next_id, run>>

\* Largest number of messages the mailbox holds.
MaxMails == 2

None == [tag |-> "None"]

(***************************************************************************)
(* Generic sequence helpers.                                               *)
(***************************************************************************)
RECURSIVE Flatten(_)
Flatten(ss) == IF ss = <<>> THEN <<>> ELSE Head(ss) \o Flatten(Tail(ss))

\* Python's  t in s  for strings, on sequences of characters.
Contains(s, t) ==
  \E i \in 1..(Len(s) + 1) :
    /\ i + Len(t) - 1 <= Len(s)
    /\ SubSeq(s, i, i + Len(t) - 1) = t

\* Python's s.split(sep) for a one-character separator.
RECURSIVE Split(_, _)
Split(s, sep) ==
  IF \A i \in 1..Len(s) : s[i] # sep
  THEN <<s>>
  ELSE LET p == CHOOSE i \in 1..Len(s) :
                  s[i] = sep /\ \A j \in 1..(i - 1) : s[j] # sep
       IN <<SubSeq(s, 1, p - 1)>> \o Split(SubSeq(s, p + 1, Len(s)), sep)

(***************************************************************************)
(* parse_email.py: the six keys of parsed_mail_data and the columns they   *)
(* are renamed to.                                                         *)
(***************************************************************************)
Keys == {"UPI Ref. No.", "To VPA", "From VPA", "Payee Name", "Amount",
         "Transaction Date"}

VpaKeys == {"To VPA", "From VPA"}

\* One chunk of a marker element: lt says the chunk itself starts with "<",
\* sep is what separates key and value (" " when the chunk has no colon).
Chunk(lt, key, sep, val) == [lt |-> lt, key |-> key, sep |-> sep, val |-> val]

HasColon(c) == c.sep \in {" : ", ": ", ":"}

\* "UPI Ref. No. " in span.text : the label followed by a space.
HasRefLabel(span) ==
  \E i \in 1..Len(span) :
    span[i].key = "UPI Ref. No." /\ span[i].sep \in {" : ", " "}

\* "Transaction Status: FAILED" in span.text
HasFailedStatus(span) ==
  \E i \in 1..Len(span) :
    span[i].key = "Transaction Status" /\ span[i].sep = ": "
      /\ span[i].val = "FAILED"

\* Accepted with the failed-status test left out.
Accepted_without_status_test(span) == HasRefLabel(span)

Accepted(span) == HasRefLabel(span) /\ ~HasFailedStatus(span)

\* str(span).split("<br/>"): the first line starts with the opening tag, the
\* last line ends with the closing tag.
Lines(span) ==
  [i \in 1..Len(span) |->
     [lt    |-> (i = 1) \/ span[i].lt,
      colon |-> HasColon(span[i]),
      key   |-> span[i].key,
      val   |-> IF i < Len(span) THEN span[i].val
                ELSE IF span[i].key \in VpaKeys
                     THEN span[i].val \o <<"</span>">>
                     ELSE span[i].val \o "</span>"]]

\* The lines of one accepted element that reach parsed_mail_data.
FieldLine(l) == ~l.lt /\ l.colon /\ l.key \in Keys

SpanFields(span) == SelectSeq(Lines(span), FieldLine)

\* parsedate_to_datetime(raw_mail["Date"]).astimezone(pytz.UTC): local hour
\* and offset to the UTC hour; a missing or malformed header raises.
DateOk(date) == date.tag = "date"

ToUTC(date) == date.loc - date.off

\* The spans of a message in walk order; a part without a body is skipped.
MailSpans(msg) ==
  Flatten([i \in 1..Len(msg.parts) |->
             IF msg.parts[i] = None THEN <<>> ELSE msg.parts[i].spans])

AcceptedSpans(msg) == SelectSeq(MailSpans(msg), Accepted)

\* The (key, value) appends one fetched message makes, in order.
MailAppends(msg) ==
  LET acc == AcceptedSpans(msg)
      fs  == Flatten([i \in 1..Len(acc) |-> SpanFields(acc[i])])
  IN [i \in 1..Len(fs) |->
        [key |-> fs[i].key,
         val |-> IF fs[i].key = "Transaction Date"
                 THEN ToUTC(msg.date) ELSE fs[i].val]]

\* Whether handling mail_id raises inside the loop of get_parsed_emails: the
\* fetch itself, or the Date header when a "Transaction Date" line is met.
MailRaises(box, mail_id) ==
  LET msg == box[mail_id]
  IN \/ msg.status = "RAISE"
     \/ /\ msg.status = "OK"
        /\ ~DateOk(msg.date)
        /\ LET acc == AcceptedSpans(msg)
               fs  == Flatten([i \in 1..Len(acc) |-> SpanFields(acc[i])])
           IN \E j \in 1..Len(fs) : fs[j].key = "Transaction Date"

get_parsed_emails(box, mail_ids) ==
  IF \E n \in 1..Len(mail_ids) : MailRaises(box, mail_ids[n])
  THEN None
  ELSE LET appends ==
             Flatten([n \in 1..Len(mail_ids) |->
                        IF box[mail_ids[n]].status # "OK" THEN <<>>
                        ELSE MailAppends(box[mail_ids[n]])])
           col(k) ==
             LET of_k == SelectSeq(appends, LAMBDA a : a.key = k)
             IN [n \in 1..Len(of_k) |-> of_k[n].val]
       IN [tag |-> "data", cols |-> [k \in Keys |-> col(k)]]

(***************************************************************************)
(* get_mail_dataframe                                                      *)
(***************************************************************************)
\* The rename of parse_email.py: key of parsed_mail_data -> column.
ColumnOf ==
  [k \in Keys |->
     CASE k = "UPI Ref. No."     -> "upi_ref_no"
       [] k = "Amount"           -> "amount"
       [] k = "From VPA"         -> "sender_upi_id"
       [] k = "To VPA"           -> "payee_upi_id"
       [] k = "Payee Name"       -> "payee_name"
       [] k = "Transaction Date" -> "transaction_date"]

Columns == {ColumnOf[k] : k \in Keys}

KeyOf(c) == CHOOSE k \in Keys : ColumnOf[k] = c

\* float(s) on the amount texts of the message universe; any other text
\* raises ValueError.
FloatOf ==
  [s \in {"50.00", "70.00", "-20.00", "0.00"} |->
     CASE s = "50.00"  -> 50
       [] s = "70.00"  -> 70
       [] s = "-20.00" -> 0 - 20
       [] s = "0.00"   -> 0]

IsFloat(s) == s \in DOMAIN FloatOf

\* payee_upi_id.str.contains("|".join(map(re.escape, ids)), regex=True)
MatchesIds(vpa, ids) == \E i \in 1..Len(ids) : Contains(vpa, ids[i])

\* SignedAmount with the mask left out: mail_df["amount"] *= -1
SignedAmount_unmasked(amount, vpa, ids) == amount * (0 - 1)

\* mail_df.loc[match_mask, "amount"] *= -1
SignedAmount(amount, vpa, ids) ==
  IF MatchesIds(vpa, ids) THEN amount * (0 - 1) ELSE amount

get_mail_dataframe(email_data, env) ==
  IF email_data = None THEN None          \* no "amount" column: KeyError
  ELSE IF \E k1, k2 \in Keys :
            Len(email_data.cols[k1]) # Len(email_data.cols[k2])
  THEN None                               \* arrays of unequal length
  ELSE IF env = None THEN None            \* os.getenv("IDS") is None
  ELSE IF \E i \in 1..Len(email_data.cols["Amount"]) :
            ~IsFloat(email_data.cols["Amount"][i])
  THEN None                               \* astype(float) raises
  ELSE LET ids == Split(env.s, ",")
           n   == Len(email_data.cols["Amount"])
           raw(i, c) == email_data.cols[KeyOf(c)][i]
       IN [tag     |-> "df",
           columns |-> Columns,
           rows    |->
             [i \in 1..n |->
                [c \in Columns |->
                   IF c = "amount"
                   THEN SignedAmount(FloatOf[raw(i, "amount")],
                                     raw(i, "payee_upi_id"), ids)
                   ELSE raw(i, c)]]]

(***************************************************************************)
(* The messages the mailbox may hold.                                      *)
(***************************************************************************)
vpaAlice == <<"a", "@", "b">>
vpaBob   == <<"b", "a", "@", "b">>
vpaMe    == <<"m", "e", "@", "b">>
vpaCarol == <<"c", "@", "b">>

EnvStr(s) == [tag |-> "str", s |-> s]

\* Values of the IDS environment variable: unset, one id, two ids, empty.
IDSChoices ==
  {None, EnvStr(vpaMe), EnvStr(vpaMe \o <<",">> \o vpaAlice), EnvStr(<<>>)}

StdSpan(ref, to, name, amt, status) ==
  << Chunk(FALSE, "Dear Customer", " ", ""),
     Chunk(FALSE, "UPI Ref. No.", " : ", ref),
     Chunk(FALSE, "To VPA", " : ", to),
     Chunk(FALSE, "From VPA", " : ", vpaMe),
     Chunk(FALSE, "Payee Name", " : ", name),
     Chunk(FALSE, "Amount", " : ", amt),
     Chunk(FALSE, "Transaction Date", " : ", "01/01/2024 10:00:00"),
     Chunk(FALSE, "Transaction Status", ": ", status),
     Chunk(FALSE, "Regards", " ", "") >>

Without(span, key) == SelectSeq(span, LAMBDA c : c.key # key)

sAlice    == StdSpan("123", vpaAlice, "Alice", "50.00", "SUCCESS")
sAlicia   == StdSpan("123", vpaAlice, "Alicia", "70.00", "SUCCESS")
sBob      == StdSpan("456", vpaBob, "Bob", "-20.00", "SUCCESS")
sMe       == StdSpan("789", vpaMe, "Self", "0.00", "SUCCESS")
sCarol    == StdSpan("246", vpaCarol, "Carol", "70.00", "SUCCESS")
sFailed   == StdSpan("999", vpaAlice, "Mallory", "70.00", "FAILED")
sNoLabel  == [StdSpan("555", vpaBob, "Dan", "50.00", "SUCCESS")
                EXCEPT ![2].sep = ": "]
sNoName   == Without(StdSpan("654", vpaAlice, "Erin", "50.00", "SUCCESS"),
                     "Payee Name")
sTwoNames == StdSpan("321", vpaBob, "Bob", "70.00", "SUCCESS")
               \o <<Chunk(FALSE, "Payee Name", " : ", "Carol"),
                    Chunk(FALSE, "Regards", " ", "")>>
\* the amount is the last chunk, so its line carries the closing tag
sTail     == Without(Without(StdSpan("741", vpaBob, "Bob", "50.00", "SUCCESS"),
                             "Regards"), "Amount")
               \o <<Chunk(FALSE, "Amount", " : ", "50.00")>>
\* the reference is the first chunk, so its line starts with the opening tag
sHead     == Without(StdSpan("963", vpaBob, "Bob", "50.00", "SUCCESS"),
                     "Dear Customer")

Date(loc, off) == [tag |-> "date", loc |-> loc, off |-> off]
BadDate == [tag |-> "bad"]

Part(spans) == [spans |-> spans]

Msg(status, date, arrived, parts) ==
  [status |-> status, date |-> date, arrived |-> arrived, parts |-> parts]

Messages ==
  { Msg("OK", Date(10, 0), 0, <<None, Part(<<sAlice>>)>>),
    Msg("OK", Date(30, 0), 1, <<Part(<<sAlicia>>)>>),
    Msg("OK", Date(15, 5), 0, <<Part(<<sBob, sMe, sCarol>>)>>),
    Msg("OK", Date(30, 0), 1, <<Part(<<sFailed, sNoLabel>>)>>),
    Msg("OK", Date(10, 0), 0, <<Part(<<sNoName>>)>>),
    Msg("OK", Date(30, 0), 1, <<Part(<<sTwoNames>>)>>),
    Msg("OK", Date(30, 0), 1, <<Part(<<sTail>>), Part(<<sHead>>)>>),
    Msg("OK", BadDate, 1, <<Part(<<sMe>>)>>),
    Msg("NO", Date(10, 0), 0, <<Part(<<sBob>>)>>),
    Msg("RAISE", Date(10, 0), 1, <<>>) }

(***************************************************************************)
(* The store: receivers (unique receiver_upi_id, identity id) and          *)
(* transactions (unique upi_ref_no).  A state of it is                     *)
(* [receivers, transactions, next_id].                                     *)
(***************************************************************************)
Store(rs, ts, n) == [receivers |-> rs, transactions |-> ts, next_id |-> n]

\* supabase.rpc("truncate_and_reset"): both tables emptied, identity reset.
truncate_and_reset(st) == Store({}, {}, 1)

HasDuplicates(seq, key) ==
  \E i, j \in 1..Len(seq) : i # j /\ seq[i][key] = seq[j][key]

\* table("receivers").upsert(receiver_data, on_conflict="receiver_upi_id"):
\* a matched row keeps its id and takes name and user_id of the record, an
\* unmatched record is inserted under the next identity value.
RECURSIVE UpsertReceivers(_, _)
UpsertReceivers(st, data) ==
  IF data = <<>> THEN st
  ELSE LET d   == Head(data)
           old == {r \in st.receivers : r.receiver_upi_id = d.receiver_upi_id}
           new == IF old = {}
                  THEN [id |-> st.next_id,
                        receiver_upi_id |-> d.receiver_upi_id,
                        name |-> d.name, user_id |-> d.user_id]
                  ELSE [id |-> (CHOOSE r \in old : TRUE).id,
                        receiver_upi_id |-> d.receiver_upi_id,
                        name |-> d.name, user_id |-> d.user_id]
       IN UpsertReceivers(
            Store((st.receivers \ old) \cup {new}, st.transactions,
                  IF old = {} THEN st.next_id + 1 ELSE st.next_id),
            Tail(data))

\* table("transactions").upsert(transaction_records, on_conflict="upi_ref_no")
UpsertTransactions(st, records) ==
  LET refs == {records[i].upi_ref_no : i \in 1..Len(records)}
      kept == {t \in st.transactions : t.upi_ref_no \notin refs}
  IN Store(st.receivers, kept \cup {records[i] : i \in 1..Len(records)},
           st.next_id)

\* str(row.transaction_date), the text the store keeps: date and hour.
DateStr(utc) == [date |-> utc \div 24, hour |-> utc % 24]

(***************************************************************************)
(* process_transactions                                                    *)
(***************************************************************************)
\* What one call leaves behind: whether it raised, the store, the store calls
\* it issued and the two payloads it upserted.
Outcome(raised, st, calls, receiver_data, transaction_records) ==
  [raised |-> raised, st |-> st, calls |-> calls,
   receiver_data |-> receiver_data,
   transaction_records |-> transaction_records]

ReceiverColumns == {"receiver_upi_id", "receiver_name", "transaction_date"}

\* IsEmptyBatch with the emptiness test inverted.
IsEmptyBatch_inverted(mail_df) == mail_df # None /\ mail_df.rows # <<>>

\* mail_df is not None and mail_df.empty
IsEmptyBatch(mail_df) == mail_df # None /\ mail_df.rows = <<>>

\* groupby("receiver_upi_id")["transaction_date"]
\*   .rank(method="first", ascending=False)
Rank(rows, i) ==
  1 + Cardinality(
        {j \in 1..Len(rows) :
           /\ rows[j]["receiver_upi_id"] = rows[i]["receiver_upi_id"]
           /\ \/ rows[j]["transaction_date"] > rows[i]["transaction_date"]
              \/ /\ rows[j]["transaction_date"] = rows[i]["transaction_date"]
                 /\ j < i})

process_transactions(user_id, mail_df, st) ==
  IF IsEmptyBatch(mail_df) THEN Outcome(FALSE, st, <<>>, <<>>, <<>>)
  ELSE IF mail_df = None                       \* TypeError: not subscriptable
  THEN Outcome(TRUE, st, <<>>, <<>>, <<>>)
  ELSE IF ~(ReceiverColumns \subseteq mail_df.columns)           \* KeyError
  THEN Outcome(TRUE, st, <<>>, <<>>, <<>>)
  ELSE
    LET rows == mail_df.rows
        eff_receiver_df ==
          SelectSeq([i \in 1..Len(rows) |-> [row |-> rows[i], rank |-> Rank(rows, i)]],
                    LAMBDA e : e.rank = 1)
        receiver_upi_ids ==
          {eff_receiver_df[n].row["receiver_upi_id"] :
             n \in 1..Len(eff_receiver_df)}
        receiver_data ==
          [n \in 1..Len(eff_receiver_df) |->
             [receiver_upi_id |-> eff_receiver_df[n].row["receiver_upi_id"],
              name            |-> eff_receiver_df[n].row["receiver_name"],
              user_id         |-> user_id]]
        st1 == UpsertReceivers(st, receiver_data)
        db_receiver_data ==
          {r \in st1.receivers : r.receiver_upi_id \in receiver_upi_ids}
        \* receiver_mapping.get(upi): the id, or null (0) when unmapped
        receiver_mapping(upi) ==
          IF \E r \in db_receiver_data : r.receiver_upi_id = upi
          THEN (CHOOSE r \in db_receiver_data : r.receiver_upi_id = upi).id
          ELSE 0
        transaction_records ==
          [i \in 1..Len(rows) |->
             [upi_ref_no       |-> rows[i]["upi_ref_no"],
              amount           |-> rows[i]["amount"],
              sender_upi_id    |-> rows[i]["sender_upi_id"],
              receiver_id      |-> receiver_mapping(rows[i]["receiver_upi_id"]),
              transaction_date |-> DateStr(rows[i]["transaction_date"]),
              user_id          |-> user_id]]
    IN IF HasDuplicates(transaction_records, "upi_ref_no")
       \* the upsert is one INSERT ... ON CONFLICT DO UPDATE statement, which
       \* the database refuses when it names one conflict key twice
       THEN Outcome(TRUE, st1,
                    <<"upsert receivers", "select receivers",
                      "upsert transactions">>, receiver_data, <<>>)
       ELSE Outcome(FALSE, UpsertTransactions(st1, transaction_records),
                    <<"upsert receivers", "select receivers",
                      "upsert transactions">>,
                    receiver_data, transaction_records)

(***************************************************************************)
(* The two ingestion entry points.                                         *)
(***************************************************************************)
Users == {[id |-> "u1", role |-> "admin"], [id |-> "u2", role |-> "user"]}

NoDate == [tag |-> "None"]

\* search_inbox.get_mail_ids(since): the ids of the mailbox, from the given
\* day on when a day is given.
get_mail_ids(box, since) ==
  LET all == [i \in 1..Len(box) |-> i]
  IN IF since = NoDate THEN all
     ELSE SelectSeq(all, LAMBDA i : box[i].arrived >= since.day)

Current == Store(receivers, transactions, next_id)

RunRecord(endpoint, user, status, fetched, mail_ids, mail_data, mail_df, calls, out) ==
  [tag |-> "run", endpoint |-> endpoint, user_id |-> user.id,
   status |-> status, fetched |-> fetched, mail_ids |-> mail_ids,
   mail_data |-> mail_data,
   mail_df |-> mail_df, calls |-> calls,
   process_calls |-> out.calls,
   receiver_data |-> out.receiver_data,
   transaction_records |-> out.transaction_records,
   before |-> Current,
   rerun |-> run # None /\ run.endpoint = endpoint /\ run.user_id = user.id]

\* POST /all-transactions, for an admin session.  The answer is the
\* JSONResponse of api_response (status 200), or HTTPException 500.
populate_all_transactions(admin_user) ==
  /\ admin_user.role = "admin"
  /\ LET mail_ids  == get_mail_ids(inbox, NoDate)
         mail_data == get_parsed_emails(inbox, mail_ids)
         mail_df   == get_mail_dataframe(mail_data, IDS)
         out == process_transactions(admin_user.id, mail_df,
                                     truncate_and_reset(Current))
     IN /\ receivers' = out.st.receivers
        /\ transactions' = out.st.transactions
        /\ next_id' = out.st.next_id
        /\ run' = RunRecord("/all-transactions", admin_user,
                            IF out.raised THEN 500 ELSE 200, TRUE, mail_ids,
                            mail_data, mail_df, <<"rpc truncate_and_reset">> \o out.calls,
                            out)
  /\ UNCHANGED <<IDS, inbox>>

\* POST /new-transactions, for any valid session.
add_new_transactions(valid_user) ==
  /\ LET mine == {t \in transactions : t.user_id = valid_user.id}
     IN IF mine = {}
        THEN \* "No transactions found. Please do a full refresh first"
             /\ UNCHANGED <<receivers, transactions, next_id>>
             /\ run' = RunRecord("/new-transactions", valid_user, 200, FALSE,
                                 <<>>, None, None, <<"select transactions">>,
                                 Outcome(FALSE, Current, <<>>, <<>>, <<>>))
        ELSE LET last == CHOOSE t \in mine :
                           \A o \in mine :
                             \/ o.transaction_date.date < t.transaction_date.date
                             \/ /\ o.transaction_date.date = t.transaction_date.date
                                /\ o.transaction_date.hour <= t.transaction_date.hour
                 last_transaction_date == [day |-> last.transaction_date.date]
                 recent_mail_ids  == get_mail_ids(inbox, last_transaction_date)
                 recent_mail_data == get_parsed_emails(inbox, recent_mail_ids)
                 mail_df == get_mail_dataframe(recent_mail_data, IDS)
                 out == process_transactions(valid_user.id, mail_df, Current)
             IN /\ receivers' = out.st.receivers
                /\ transactions' = out.st.transactions
                /\ next_id' = out.st.next_id
                /\ run' = RunRecord("/new-transactions", valid_user,
                                    IF out.raised THEN 500 ELSE 200, TRUE,
                                    recent_mail_ids, recent_mail_data, mail_df,
                                    <<"select transactions">> \o out.calls, out)
  /\ UNCHANGED <<IDS, inbox>>

\* A message arrives in the mailbox.
Deliver(msg) ==
  /\ Len(inbox) < MaxMails
  /\ inbox' = Append(inbox, msg)
  /\ run' = None
  /\ UNCHANGED <<IDS, receivers, transactions, next_id>>

\* Rows another client of the store left there before the first run.
rowAlice == [id |-> 1, receiver_upi_id |-> vpaAlice, name |-> "Old Alice",
             user_id |-> "u2"]
txAlice  == [upi_ref_no |-> "123", amount |-> 50, sender_upi_id |-> vpaMe,
             receiver_id |-> 1, transaction_date |-> DateStr(10),
             user_id |-> "u2"]
rowBob   == [id |-> 2, receiver_upi_id |-> vpaBob, name |-> "Bob",
             user_id |-> "u1"]
txBob    == [upi_ref_no |-> "456", amount |-> 20, sender_upi_id |-> vpaMe,
             receiver_id |-> 2, transaction_date |-> DateStr(34),
             user_id |-> "u1"]

InitialStores ==
  { Store({}, {}, 1),
    Store({rowAlice}, {txAlice}, 2),
    Store({rowAlice, rowBob}, {txAlice, txBob}, 3) }

Init ==
  /\ IDS \in IDSChoices
  /\ inbox = <<>>
  /\ \E st \in InitialStores :
       /\ receivers = st.receivers
       /\ transactions = st.transactions
       /\ next_id = st.next_id
  /\ run = None

Next ==
  \/ \E msg \in Messages : Deliver(msg)
  \/ \E u \in Users : populate_all_transactions(u)
  \/ \E u \in Users : add_new_transactions(u)

Spec == Init /\ [][Next]_vars

(***************************************************************************)
(* Properties.  They speak of the last request through run: its batch      *)
(* (mail_df), the store before it (run.before) and the store after it (the *)
(* current tables).                                                        *)
(***************************************************************************)
Ran == run # None

\* The last request built a batch with at least one record.
HasBatch == Ran /\ run.fetched /\ run.mail_df # None /\ run.mail_df.rows # <<>>

Batch == run.mail_df.rows

\* The last request fetched an empty mail-id set and built an empty batch.
EmptyRun ==
  /\ Ran /\ run.fetched /\ run.mail_ids = <<>>
  /\ run.mail_df # None /\ run.mail_df.rows = <<>>

PayeeId(row) == row[ColumnOf["To VPA"]]

PayeeName(row) == row[ColumnOf["Payee Name"]]

OwnIds == {Split(IDS.s, ",")[i] : i \in 1..Len(Split(IDS.s, ","))}

IsOwn(vpa) == \E id \in OwnIds : Contains(vpa, id)

C2_SignOfPositiveAmounts ==
  (Ran /\ run.fetched /\ run.mail_df # None) =>
    \A i \in 1..Len(Batch) :
      FloatOf[run.mail_data.cols["Amount"][i]] > 0 =>
        (Batch[i]["amount"] < 0 <=> IsOwn(PayeeId(Batch[i])))

\* C2 as stated: every record of the batch has a negative amount exactly when
\* its counter-party id contains an own id, whatever the parsed amount.
C2_SignInvariant ==
  (Ran /\ run.fetched /\ run.mail_df # None) =>
    \A i \in 1..Len(Batch) :
      Batch[i]["amount"] < 0 <=> IsOwn(PayeeId(Batch[i]))

\* C2: a batch with a positive amount made negative for an own counter-party
\* id beside a positive amount kept for a foreign one.
C2_Witness ==
  /\ HasBatch
  /\ \E i, j \in 1..Len(Batch) :
       /\ FloatOf[run.mail_data.cols["Amount"][i]] > 0
       /\ IsOwn(PayeeId(Batch[i])) /\ Batch[i]["amount"] < 0
       /\ FloatOf[run.mail_data.cols["Amount"][j]] > 0
       /\ ~IsOwn(PayeeId(Batch[j])) /\ Batch[j]["amount"] > 0

C4_RecentName ==
  HasBatch =>
    \A i, j \in 1..Len(Batch) :
      (/\ PayeeId(Batch[i]) = PayeeId(Batch[j])
       /\ Batch[i]["transaction_date"] < Batch[j]["transaction_date"]) =>
        LET group == {k \in 1..Len(Batch) : PayeeId(Batch[k]) = PayeeId(Batch[i])}
            latest == {k \in group :
                         \A m \in group : Batch[m]["transaction_date"]
                                            <= Batch[k]["transaction_date"]}
            sent == {n \in 1..Len(run.receiver_data) :
                       run.receiver_data[n].receiver_upi_id = PayeeId(Batch[i])}
        IN /\ Cardinality(sent) = 1
           /\ \A n \in sent :
                run.receiver_data[n].name \in {PayeeName(Batch[k]) : k \in latest}

\* The messages of the mailbox with their failed-status elements removed.
StripFailed(box) ==
  [n \in 1..Len(box) |->
     [box[n] EXCEPT !.parts =
        [p \in 1..Len(box[n].parts) |->
           IF box[n].parts[p] = None THEN None
           ELSE Part(SelectSeq(box[n].parts[p].spans,
                               LAMBDA sp : ~HasFailedStatus(sp)))]]]

\* C5: what get_parsed_emails returns is what it returns for the same messages
\* without their failed-status elements: such an element contributes no value.
C5_FailedExcluded ==
  (Ran /\ run.fetched) =>
    run.mail_data = get_parsed_emails(StripFailed(inbox), run.mail_ids)

\* C5: a run that read a failed-status element carrying the reference label
\* and still built a batch.
C5_Witness ==
  /\ HasBatch
  /\ \E n \in 1..Len(run.mail_ids) :
       /\ inbox[run.mail_ids[n]].status = "OK"
       /\ \E i \in 1..Len(MailSpans(inbox[run.mail_ids[n]])) :
            /\ HasFailedStatus(MailSpans(inbox[run.mail_ids[n]])[i])
            /\ HasRefLabel(MailSpans(inbox[run.mail_ids[n]])[i])

\* C6: the transactions table holds at most one record per upi_ref_no, and a
\* reference that two messages of the last run's batch carry with different
\* amounts ends with exactly one record, holding one of the run's amounts.
C6_LastWriteWins ==
  /\ \A t1, t2 \in transactions : t1.upi_ref_no = t2.upi_ref_no => t1 = t2
  /\ HasBatch =>
       \A i, j \in 1..Len(Batch) :
         (/\ Batch[j]["upi_ref_no"] = Batch[i]["upi_ref_no"]
          /\ Batch[j]["amount"] # Batch[i]["amount"]) =>
           \E t \in transactions :
             /\ t.upi_ref_no = Batch[i]["upi_ref_no"]
             /\ t.amount \in {Batch[i]["amount"], Batch[j]["amount"]}

\* The field lines of an element name each of the six keys exactly once.
Complete(span) ==
  \A k \in Keys :
    Cardinality({j \in 1..Len(SpanFields(span)) : SpanFields(span)[j].key = k}) = 1

FieldOf(span, k) ==
  SpanFields(span)[CHOOSE j \in 1..Len(SpanFields(span)) :
                     SpanFields(span)[j].key = k].val

\* The record the six values of one complete element make.
RowOfSpan(msg, span) ==
  [c \in Columns |->
     IF c = "transaction_date" THEN ToUTC(msg.date)
     ELSE IF c = "amount"
     THEN SignedAmount(FloatOf[FieldOf(span, "Amount")],
                       FieldOf(span, "To VPA"), Split(IDS.s, ","))
     ELSE FieldOf(span, KeyOf(c))]

\* C7: every row of the batch is the record of one accepted element that names
\* each of the six keys exactly once.
C7_NoMixedRecords ==
  (Ran /\ run.fetched /\ run.mail_df # None) =>
    \A i \in 1..Len(Batch) :
      \E n \in 1..Len(run.mail_ids) :
        LET msg == inbox[run.mail_ids[n]]
        IN /\ msg.status = "OK"
           /\ \E s \in 1..Len(AcceptedSpans(msg)) :
                /\ Complete(AcceptedSpans(msg)[s])
                /\ IsFloat(FieldOf(AcceptedSpans(msg)[s], "Amount"))
                /\ Batch[i] = RowOfSpan(msg, AcceptedSpans(msg)[s])

\* A message whose fetch or parse fails.
Failing(mail_id) ==
  inbox[mail_id].status # "OK" \/ MailRaises(inbox, mail_id)

\* The mail ids of the last run whose fetch and parse do not fail.
GoodIds == SelectSeq(run.mail_ids, LAMBDA id : ~Failing(id))

\* C8: when messages of the run that do not fail carry records,
\* get_parsed_emails returns exactly those records, whatever the other
\* messages of the run do.
C8_FailureIsolation ==
  (/\ Ran /\ run.fetched
   /\ get_parsed_emails(inbox, GoodIds).cols["UPI Ref. No."] # <<>>) =>
    run.mail_data = get_parsed_emails(inbox, GoodIds)

\* C9 as amended: a run whose mail-id set is empty, with IDS configured so that
\* the batch is empty, succeeds, and process_transactions issues no store call
\* in it; /new-transactions has
\* only read the last transaction date and leaves both tables as they were,
\* /all-transactions has called truncate_and_reset and leaves both empty.
C9_EmptyBatch ==
  EmptyRun =>
    /\ run.status = 200
    /\ run.process_calls = <<>>
    /\ run.endpoint = "/new-transactions" =>
         /\ run.calls = <<"select transactions">>
         /\ receivers = run.before.receivers
         /\ transactions = run.before.transactions
    /\ run.endpoint = "/all-transactions" =>
         /\ run.calls = <<"rpc truncate_and_reset">>
         /\ receivers = {}
         /\ transactions = {}

\* C9 as stated: a run whose mail-id set is empty, so that the batch is empty,
\* succeeds, issues no store call and leaves both tables unchanged, through
\* either entry point.
C9_EmptyNoOp ==
  EmptyRun =>
    /\ run.status = 200
    /\ run.calls = <<>>
    /\ receivers = run.before.receivers
    /\ transactions = run.before.transactions

\* C9: a full refresh over an empty mail-id set that found transactions in
\* the store and succeeded.
C9_Witness ==
  /\ EmptyRun
  /\ run.endpoint = "/all-transactions"
  /\ run.before.transactions # {}
  /\ run.status = 200

\* C10: a run for one user that ends without an error leaves every receivers
\* row and every transactions row of another user in the store, unchanged.
C10_Ownership ==
  (Ran /\ run.status # 500) =>
    /\ \A r \in run.before.receivers :
         r.user_id # run.user_id => r \in receivers
    /\ \A t \in run.before.transactions :
         t.user_id # run.user_id => t \in transactions
====
